---- MODULE Spec2Model ----
(***************************************************************************)
(* Model of the HTTP client of typescript-api-standard/ApiClient.ts:       *)
(* ApiClient.request (cache check, de-duplication, settlement),            *)
(* ApiClient.executeWithRetry (retry loop, exhaustion) and                 *)
(* ApiClient.executeRequest (one attempt with timeout and cancellation).   *)
(*                                                                         *)
(* JavaScript runs one task at a time, so every action below is the code   *)
(* that runs between two suspension points (await) of one call.            *)
(***************************************************************************)
EXTENDS Integers, Sequences, FiniteSets, TLC

(* ------------------------------ bounds --------------------------------- *)
\* calls of one client that are unsettled at the same time
MaxCalls == 2
\* config.retries of a call
MaxRetry == 1
\* the last instant of Date.now()
MaxTime == 2

\* the largest attempt index calculateBackoff is called with
MaxAttempt == 5
\* the values Math.random() takes: j / JitterSteps for 0 <= j < JitterSteps
JitterSteps == 4

Calls == 1..MaxCalls

(* ------------------------------ inputs --------------------------------- *)
\* HttpMethod: POST stands for every body-bearing or non-read verb; PUT,
\* PATCH and DELETE take the same path through request() as POST.
Methods == {"GET", "POST"}
Urls == {"/a"}
NoKey == "undefined"
OverrideKeys == {NoKey, "K"}
TTLs == {1}
\* response.status values the network may answer with; 301 stands for the
\* statuses below 400 for which response.ok is false (a redirect that fetch
\* was told not to follow, 300, 304)
Statuses == {200, 301, 404, 503}

Requests ==
  [method : Methods, url : Urls, key : OverrideKeys, cacheEnabled : BOOLEAN,
   ttl : TTLs, maxRetries : 0..MaxRetry]

NoRequest ==
  [method |-> "NONE", url |-> "", key |-> NoKey, cacheEnabled |-> FALSE,
   ttl |-> 0, maxRetries |-> 0]

(* --------------------------- error taxonomy ---------------------------- *)
NoError == [code |-> <<"NONE">>, status |-> 0, retryable |-> FALSE]

NetworkError == [code |-> <<"NETWORK_ERROR">>, status |-> 0, retryable |-> TRUE]

TimeoutError == [code |-> <<"TIMEOUT">>, status |-> 408, retryable |-> TRUE]

ClientError(status) ==
  [code |-> <<"CLIENT_ERROR", status>>, status |-> status, retryable |-> FALSE]

\* ServerError built with retryable = false, like ClientError.
ServerErrorFinal(status) ==
  [code |-> <<"SERVER_ERROR", status>>, status |-> status, retryable |-> FALSE]

ServerError(status) ==
  [code |-> <<"SERVER_ERROR", status>>, status |-> status, retryable |-> TRUE]

\* new ApiClientError('Request cancelled', 'CANCELLED', 0, false, ...)
CancelledError == [code |-> <<"CANCELLED">>, status |-> 0, retryable |-> FALSE]

(* ------------------------------ envelopes ------------------------------ *)
NoResult == [kind |-> "none"]

\* { success: true, data, status, headers }
Success(data, status) == [kind |-> "ok", data |-> data, status |-> status]

\* { success: false, error: lastError.toApiError(), status: lastError.status }
Failure(err) ==
  [kind |-> "fail", code |-> err.code, retryable |-> err.retryable,
   status |-> err.status]

\* the promise of the call rejects: no envelope reaches the caller
Rejected == [kind |-> "rejected"]

(* ------------------------------- state --------------------------------- *)
VARIABLES
  req,              \* req[c]: the Request Descriptor of call c
  st,               \* st[c]: the position and the locals of call c
  pendingRequests,  \* ApiClient.pendingRequests: key -> owner call (0: absent)
  cache,            \* RequestCache.cache: key -> entry
  now,              \* Date.now()
  cleared,          \* history: clearCache() ran and no call was issued since
  hist,             \* history: key -> the last write of the store's driver
  backoff,          \* one evaluation of calculateBackoff
  xfer              \* one invocation of TransferService.transferFunds

vars == <<req, st, pendingRequests, cache, now, cleared, hist, backoff, xfer>>

\* the state of the units that are exercised on their own
unitVars == <<hist, backoff, xfer>>

\* const cacheKey = config?.cache?.key ?? `${method}:${url}`
CacheKeyOf(method, url, key) ==
  IF key # NoKey THEN key ELSE method \o ":" \o url

Keys == {CacheKeyOf(m, u, k) : m \in Methods, u \in Urls, k \in OverrideKeys}

\* the payload the cache and the caller see as "no value"
Null == "null"

\* the body the server holds for a URL
Payload(url) == "body of " \o url

\* what response.json() may return for a URL: the body, or the JSON null
Bodies(url) == {Payload(url), Null}

NoEntry == [data |-> Null, expiry |-> 0, present |-> FALSE]

\* first: the source of the attempt's signal that fired first (timer or
\* caller); target: the URL fetch was called with; netStatus: the status of
\* the response fetch resolved with (resp: of the response onResponse
\* returned); unparsed: the attempts that ended in response.json() throwing
IdleCall ==
  [pc |-> "idle", origin |-> 0, attempt |-> 0, timer |-> "off",
   sig |-> "none", resp |-> 0, lastError |-> NoError, fetches |-> 0,
   onErrorCalls |-> 0, onErrorArg |-> NoError, failureCount |-> 0,
   successCount |-> 0, allNet |-> TRUE, abortedAt |-> -1,
   first |-> "none", target |-> "", netStatus |-> 0,
   onRequestCalls |-> 0, onResponseCalls |-> 0, unparsed |-> 0,
   result |-> NoResult,
   outcome |-> NoResult]

\* no write made yet, or the last one undone by delete or clear
NoWrite == [data |-> Null, at |-> 0, ttl |-> 0, live |-> FALSE]

\* calculateBackoff not called
NoBackoff == [pc |-> "idle", attempt |-> 0, baseDelay |-> 0,
              exponentialDelay |-> 0, draw |-> 0, delay |-> 0]

\* findByIdWithLock returns Optional.empty()
NoAccount == -1

\* transferFunds not invoked
NoTransfer ==
  [pc |-> "idle", amountNull |-> FALSE, amount |-> 0, source |-> "",
   target |-> "", repo |-> <<>>, sourceBalance |-> 0, targetBalance |-> 0,
   saved |-> {}, events |-> 0, notifyCalls |-> 0, notifyFailed |-> FALSE,
   successCount |-> 0, failureCount |-> 0, status |-> "NONE",
   exception |-> "none"]

\* a client after its construction
InitClient ==
  /\ req = [c \in Calls |-> NoRequest]
  /\ st = [c \in Calls |-> IdleCall]
  /\ pendingRequests = [k \in Keys |-> 0]
  /\ cache = [k \in Keys |-> NoEntry]
  /\ now = 0
  /\ cleared = FALSE
  /\ hist = [k \in Keys |-> NoWrite]

Init ==
  /\ InitClient
  /\ backoff = NoBackoff
  /\ xfer = NoTransfer

(* ----------------------------- Cache Store ----------------------------- *)
\* RequestCache.get that tells a stored null from an absent entry.
CacheGetValueTagged(store, key, t) ==
  IF ~store[key].present THEN Null
  ELSE IF t > store[key].expiry THEN Null
  ELSE IF store[key].data = Null THEN "cached null"
  ELSE store[key].data

\* RequestCache.get: the value returned
CacheGetValue(store, key, t) ==
  IF ~store[key].present THEN Null
  ELSE IF t > store[key].expiry THEN Null
  ELSE store[key].data

\* RequestCache.get: the store it leaves (an entry past its expiry is deleted)
CacheGetStore(store, key, t) ==
  IF store[key].present /\ t > store[key].expiry
  THEN [store EXCEPT ![key] = NoEntry]
  ELSE store

\* RequestCache.set that keeps the entry a key has already.
CacheSetFirstWins(store, key, data, ttl, t) ==
  IF store[key].present THEN store
  ELSE [store EXCEPT ![key] =
          [data |-> data, expiry |-> t + ttl, present |-> TRUE]]

\* RequestCache.set
CacheSet(store, key, data, ttl, t) ==
  [store EXCEPT ![key] = [data |-> data, expiry |-> t + ttl, present |-> TRUE]]

\* RequestCache.clear as a sweep: only the entries past their expiry go.
CacheClearExpired(store) ==
  [k \in DOMAIN store |->
     IF store[k].present /\ now > store[k].expiry THEN NoEntry ELSE store[k]]

\* RequestCache.clear
CacheClear(store) == [k \in DOMAIN store |-> NoEntry]

\* RequestCache.delete
CacheDelete(store, key) == [store EXCEPT ![key] = NoEntry]

(* --------------------------- Retry Orchestrator ------------------------ *)
\* ShouldBreak that gives up one attempt later.
ShouldBreakLate(err, attempt, maxRetries) ==
  ~err.retryable \/ attempt = maxRetries + 1

\* if (!lastError.retryable || attempt === options.maxRetries) break;
ShouldBreak(err, attempt, maxRetries) ==
  ~err.retryable \/ attempt = maxRetries

\* After the loop: the failure counter, the error interceptor, the envelope.
\* hookThrows: config.onError throws or rejects, so the awaiting
\* executeWithRetry rejects instead of returning the envelope.
Exhaust(s, err, hookThrows) ==
  [s EXCEPT !.pc = "resolved", !.timer = "off", !.resp = 0,
            !.first = "none", !.target = "", !.netStatus = 0,
            !.lastError = err,
            !.failureCount = @ + 1,
            !.onErrorCalls = @ + 1,
            !.onErrorArg = err,
            !.result = IF hookThrows THEN Rejected ELSE Failure(err)]

\* OnAttemptError with the failure counter and the error interceptor invoked
\* in the catch block, on every failed attempt.
OnAttemptErrorEager(s, r, err, net, hookThrows) ==
  IF ~err.retryable \/ s.attempt = r.maxRetries
  THEN Exhaust([s EXCEPT !.allNet = @ /\ net], err, hookThrows)
  ELSE [s EXCEPT !.pc = "wait", !.timer = "off", !.resp = 0,
                 !.first = "none", !.target = "", !.netStatus = 0,
                 !.lastError = err, !.allNet = @ /\ net,
                 !.failureCount = @ + 1, !.onErrorCalls = @ + 1,
                 !.onErrorArg = err]

\* OnAttemptError entered without clearTimeout(timeoutId): the timer of an
\* attempt that is retried stays as it was.
OnAttemptErrorKeepsTimer(s, r, err, net, hookThrows) ==
  IF ShouldBreak(err, s.attempt, r.maxRetries)
  THEN Exhaust([s EXCEPT !.allNet = @ /\ net], err, hookThrows)
  ELSE [s EXCEPT !.pc = "wait", !.resp = 0,
                 !.first = "none", !.target = "", !.netStatus = 0,
                 !.lastError = err, !.allNet = @ /\ net]

\* catch (error) of executeWithRetry, entered after executeRequest's finally
\* has cleared the timer.  net: the attempt failed on the network itself
\* (connection failure, timeout or 5xx).
OnAttemptError(s, r, err, net, hookThrows) ==
  IF ShouldBreak(err, s.attempt, r.maxRetries)
  THEN Exhaust([s EXCEPT !.allNet = @ /\ net], err, hookThrows)
  ELSE [s EXCEPT !.pc = "wait", !.timer = "off", !.resp = 0,
                 !.first = "none", !.target = "", !.netStatus = 0,
                 !.lastError = err, !.allNet = @ /\ net]

\* LoopTop with the request interceptor applied once per call, before the
\* first attempt only.
LoopTopOnce(s, r, hookThrows) ==
  IF s.sig = "aborted"
  THEN OnAttemptError(s, r, CancelledError, FALSE, hookThrows)
  ELSE [s EXCEPT !.pc = "request", !.timer = "armed",
                 !.onRequestCalls = IF s.attempt = 0 THEN @ + 1 ELSE @]

\* Top of one loop iteration: the check of the caller's signal, then the
\* synchronous start of executeRequest (timer armed, onRequest called).
LoopTop(s, r, hookThrows) ==
  IF s.sig = "aborted"
  THEN OnAttemptError(s, r, CancelledError, FALSE, hookThrows)
  ELSE [s EXCEPT !.pc = "request", !.timer = "armed",
                 !.onRequestCalls = @ + 1]

(* ---------------------------- Request Executor ------------------------- *)
\* the attempt-scoped signal: the caller's signal combined with the timer's
CombinedAborted(s) == s.sig = "aborted" \/ s.timer = "fired"

\* catch of executeRequest on an AbortError:
\* if (timeoutController.signal.aborted) TimeoutError else CANCELLED
AbortClass(s) == IF s.timer = "fired" THEN TimeoutError ELSE CancelledError

\* if (!response.ok) { 4xx -> ClientError, >= 500 -> ServerError }
StatusError(status) ==
  IF status >= 400 /\ status < 500 THEN ClientError(status)
  ELSE IF status >= 500 THEN ServerError(status)
  ELSE NoError

(* ------------------------------ Facade --------------------------------- *)
\* IsDeduplicated for the keys built from verb and URL only: an override
\* key names a cache entry and no pending request.
IsDeduplicatedByTarget(method, key, pending) ==
  method = "GET" /\ pending[key] # 0 /\ key \notin OverrideKeys

\* if (method === 'GET' && this.pendingRequests.has(cacheKey))
IsDeduplicated(method, key, pending) == method = "GET" /\ pending[key] # 0

\* if (method === 'GET') this.pendingRequests.set(cacheKey, requestPromise)
Register(method, key, pending, c) ==
  IF method = "GET" THEN [pending EXCEPT ![key] = c] ELSE pending

\* Release without the delete: the entry outlives the call.
ReleaseLeak(method, key, pending) == pending

\* finally { this.pendingRequests.delete(cacheKey) }
Release(method, key, pending) == [pending EXCEPT ![key] = 0]

KeyOf(c) == CacheKeyOf(req[c].method, req[c].url, req[c].key)

\* The cache write of a settled call, for every verb.
ShouldCacheAnyVerb(res, r) == res.kind = "ok" /\ r.cacheEnabled

\* ShouldCache of a client whose clearCache() also cancels the cache writes
\* of the calls in flight.
ShouldCacheUnlessCleared(res, r) ==
  res.kind = "ok" /\ r.method = "GET" /\ r.cacheEnabled /\ ~cleared

\* if (result.success && method === 'GET' && config?.cache?.enabled)
ShouldCache(res, r) == res.kind = "ok" /\ r.method = "GET" /\ r.cacheEnabled

\* The call has returned: its locals are gone, the caller holds the outcome.
Returned(s, res) ==
  [IdleCall EXCEPT !.pc = "done", !.origin = s.origin, !.outcome = res]

\* a slot whose call has not been issued, or has returned to its caller
Free(c) == st[c].pc \in {"idle", "done"}

\* request(): everything up to its first await.  The call takes the lowest
\* free slot; the record of the call that held the slot before is dropped.
\* origin: the call whose attempt sequence answers this one (the call itself,
\* the owner of the pending entry, or -1 for the Cache Store).
Issue(c, r, sg, hookThrows) ==
  /\ Free(c)
  /\ \A d \in Calls : d < c => ~Free(d)
  /\ req' = [req EXCEPT ![c] = r]
  /\ LET key == CacheKeyOf(r.method, r.url, r.key)
         useCache == r.method = "GET" /\ r.cacheEnabled
         cached == IF useCache THEN CacheGetValue(cache, key, now) ELSE Null
         s0 == [IdleCall EXCEPT !.sig = sg]
     IN /\ cache' = IF useCache THEN CacheGetStore(cache, key, now) ELSE cache
        /\ IF useCache /\ cached # Null
           THEN /\ st' = [st EXCEPT ![c] =
                            Returned([s0 EXCEPT !.origin = -1],
                                     Success(cached, 200))]
                /\ UNCHANGED pendingRequests
           ELSE IF IsDeduplicated(r.method, key, pendingRequests)
           THEN /\ st' = [st EXCEPT ![c] =
                            [s0 EXCEPT !.pc = "joined",
                                       !.origin = pendingRequests[key]]]
                /\ UNCHANGED pendingRequests
           ELSE /\ st' = [st EXCEPT ![c] =
                            LoopTop([s0 EXCEPT !.origin = c], r, hookThrows)]
                /\ pendingRequests' = Register(r.method, key, pendingRequests, c)
  /\ cleared' = FALSE
  /\ UNCHANGED <<now, unitVars>>

\* await this.config.onRequest(url, requestOptions) returns: fetch is called
OnRequestReturns(c) ==
  /\ st[c].pc = "request"
  /\ st' = [st EXCEPT ![c] = [@ EXCEPT !.pc = "fetch", !.fetches = @ + 1,
                                        !.target = req[c].url]]
  /\ UNCHANGED <<req, pendingRequests, cache, now, cleared, unitVars>>

\* config.onRequest throws: no fetch, the catch wraps it in a NetworkError
OnRequestThrows(c, hookThrows) ==
  /\ st[c].pc = "request"
  /\ st' = [st EXCEPT ![c] =
              OnAttemptError(@, req[c], NetworkError, FALSE, hookThrows)]
  /\ UNCHANGED <<req, pendingRequests, cache, now, cleared, unitVars>>

\* the URLs a configured onRequest may return in place of the call's
RewriteUrls == {"/r"}

\* await this.config.onRequest(url, requestOptions) returns another URL:
\* url = intercepted.url, and fetch is called with it
OnRequestRewrites(c, u) ==
  /\ st[c].pc = "request"
  /\ st' = [st EXCEPT ![c] = [@ EXCEPT !.pc = "fetch", !.fetches = @ + 1,
                                        !.target = u]]
  /\ UNCHANGED <<req, pendingRequests, cache, now, cleared, unitVars>>

\* fetch resolves with a response
FetchResponds(c, status) ==
  /\ st[c].pc = "fetch"
  /\ ~CombinedAborted(st[c])
  /\ st' = [st EXCEPT ![c] = [@ EXCEPT !.pc = "response", !.resp = status,
                                        !.netStatus = status,
                                        !.onResponseCalls = @ + 1]]
  /\ UNCHANGED <<req, pendingRequests, cache, now, cleared, unitVars>>

\* fetch rejects: connection failure
FetchFails(c, hookThrows) ==
  /\ st[c].pc = "fetch"
  /\ ~CombinedAborted(st[c])
  /\ st' = [st EXCEPT ![c] =
              OnAttemptError(@, req[c], NetworkError, TRUE, hookThrows)]
  /\ UNCHANGED <<req, pendingRequests, cache, now, cleared, unitVars>>

\* the attempt observes the AbortError of its aborted fetch
ObserveAbort(c, hookThrows) ==
  /\ st[c].pc = "fetch"
  /\ CombinedAborted(st[c])
  /\ st' = [st EXCEPT ![c] =
              OnAttemptError(@, req[c], AbortClass(@), @.timer = "fired",
                             hookThrows)]
  /\ UNCHANGED <<req, pendingRequests, cache, now, cleared, unitVars>>

\* a configured onResponse is about to return another response than the one
\* it was given: response = await this.config.onResponse(response, ...)
OnResponseReplaces(c, status) ==
  /\ st[c].pc = "response"
  /\ st[c].resp = st[c].netStatus
  /\ status # st[c].resp
  /\ st' = [st EXCEPT ![c] = [@ EXCEPT !.resp = status]]
  /\ UNCHANGED <<req, pendingRequests, cache, now, cleared, unitVars>>

\* config.onResponse throws: the catch wraps it in a NetworkError
OnResponseThrows(c, hookThrows) ==
  /\ st[c].pc = "response"
  /\ st' = [st EXCEPT ![c] =
              OnAttemptError(@, req[c], NetworkError, FALSE, hookThrows)]
  /\ UNCHANGED <<req, pendingRequests, cache, now, cleared, unitVars>>

\* onResponse returns the response, whose status raises a classified error
RespondError(c, hookThrows) ==
  /\ st[c].pc = "response"
  /\ StatusError(st[c].resp) # NoError
  /\ st' = [st EXCEPT ![c] =
              OnAttemptError(@, req[c], StatusError(@.resp), @.resp >= 500,
                             hookThrows)]
  /\ UNCHANGED <<req, pendingRequests, cache, now, cleared, unitVars>>

\* no error raised for the status; response.json() parses the body:
\* executeRequest returns the success envelope, executeWithRetry counts the
\* success and returns it
RespondSuccess(c, data) ==
  /\ st[c].pc = "response"
  /\ StatusError(st[c].resp) = NoError
  /\ data \in Bodies(st[c].target)
  /\ st' = [st EXCEPT ![c] =
              [@ EXCEPT !.pc = "resolved", !.timer = "off", !.resp = 0,
                        !.first = "none", !.target = "", !.netStatus = 0,
                        !.successCount = @ + 1, !.allNet = FALSE,
                        !.result = Success(data, st[c].resp)]]
  /\ UNCHANGED <<req, pendingRequests, cache, now, cleared, unitVars>>

\* response.json() throws on a body that is no JSON: a NetworkError
BodyParseFails(c, hookThrows) ==
  /\ st[c].pc = "response"
  /\ StatusError(st[c].resp) = NoError
  /\ st' = [st EXCEPT ![c] =
              OnAttemptError([@ EXCEPT !.unparsed = @ + 1], req[c],
                             NetworkError, FALSE, hookThrows)]
  /\ UNCHANGED <<req, pendingRequests, cache, now, cleared, unitVars>>

\* response.json() rejects with the AbortError of the aborted signal
BodyAborted(c, hookThrows) ==
  /\ st[c].pc = "response"
  /\ StatusError(st[c].resp) = NoError
  /\ CombinedAborted(st[c])
  /\ st' = [st EXCEPT ![c] =
              OnAttemptError(@, req[c], AbortClass(@), @.timer = "fired",
                             hookThrows)]
  /\ UNCHANGED <<req, pendingRequests, cache, now, cleared, unitVars>>

\* setTimeout(() => timeoutController.abort(), options.timeout) fires
TimerFires(c) ==
  /\ st[c].timer = "armed"
  /\ st' = [st EXCEPT ![c] =
              [@ EXCEPT !.timer = "fired",
                        !.first = IF @ = "none" THEN "timer" ELSE @]]
  /\ UNCHANGED <<req, pendingRequests, cache, now, cleared, unitVars>>

\* the caller aborts the AbortController whose signal it passed
CallerAbort(c) ==
  /\ st[c].sig = "live"
  /\ ~Free(c)
  /\ st' = [st EXCEPT ![c] =
              [@ EXCEPT !.sig = "aborted",
                        !.first = IF @ = "none" /\ st[c].timer # "off"
                                  THEN "caller" ELSE @,
                        !.abortedAt = IF st[c].pc = "fetch" /\ st[c].timer = "armed"
                                      THEN st[c].fetches ELSE -1]]
  /\ UNCHANGED <<req, pendingRequests, cache, now, cleared, unitVars>>

\* await this.sleep(delay) returns: attempt++ and the next iteration starts
BackoffElapsed(c, hookThrows) ==
  /\ st[c].pc = "wait"
  /\ st' = [st EXCEPT ![c] =
              LoopTop([@ EXCEPT !.attempt = @ + 1], req[c], hookThrows)]
  /\ UNCHANGED <<req, pendingRequests, cache, now, cleared, unitVars>>

\* request() resumes after await requestPromise: the cache write, the
\* finally block, and the result reaching the caller and every caller that
\* was handed the same promise.
Settle(c) ==
  /\ st[c].pc = "resolved"
  /\ LET r == req[c]
         res == st[c].result
     IN /\ cache' = IF ShouldCache(res, r)
                    THEN CacheSet(cache, KeyOf(c), res.data, r.ttl, now)
                    ELSE cache
        /\ pendingRequests' = Release(r.method, KeyOf(c), pendingRequests)
        /\ st' = [d \in Calls |->
                    IF d = c \/ (st[d].pc = "joined" /\ st[d].origin = c)
                    THEN Returned(st[d], res)
                    ELSE st[d]]
  /\ UNCHANGED <<req, now, cleared, unitVars>>

\* time passes
Tick ==
  /\ now < MaxTime
  /\ now' = now + 1
  /\ UNCHANGED <<req, st, pendingRequests, cache, cleared, unitVars>>

\* the caller passes no signal, a signal, or a signal that is aborted already
Signals == {"none", "live", "aborted"}

\* ApiClient.clearCache
ClearCache ==
  /\ cache' = CacheClear(cache)
  /\ cleared' = TRUE
  /\ UNCHANGED <<req, st, pendingRequests, now, unitVars>>

\* One step of a client whose concurrent calls take the slots S, with the
\* descriptors R, the signals G, the response statuses T and the bodies D.
NextOver(S, R, G, T, D) ==
  \/ \E c \in S, r \in R, sg \in G, h \in BOOLEAN : Issue(c, r, sg, h)
  \/ \E c \in S : OnRequestReturns(c)
  \/ \E c \in S, h \in BOOLEAN : OnRequestThrows(c, h)
  \/ \E c \in S, s \in T : FetchResponds(c, s)
  \/ \E c \in S, h \in BOOLEAN : FetchFails(c, h)
  \/ \E c \in S, h \in BOOLEAN : ObserveAbort(c, h)
  \/ \E c \in S, h \in BOOLEAN : OnResponseThrows(c, h)
  \/ \E c \in S, h \in BOOLEAN : RespondError(c, h)
  \/ \E c \in S, d \in D : RespondSuccess(c, d)
  \/ \E c \in S, h \in BOOLEAN : BodyParseFails(c, h)
  \/ \E c \in S, h \in BOOLEAN : BodyAborted(c, h)
  \/ \E c \in S : TimerFires(c)
  \/ \E c \in S : CallerAbort(c)
  \/ \E c \in S, h \in BOOLEAN : BackoffElapsed(c, h)
  \/ \E c \in S : Settle(c)
  \/ ClearCache
  \/ Tick

(* ------------------------- calculateBackoff ----------------------------- *)
\* Math.min(..., 30000): the cap, in milliseconds
BackoffCap == 30000
\* Math.random() * 0.3 * exponentialDelay: the factor 0.3, in tenths
JitterTenths == 3

\* Delays are kept in units of 1 / BackoffScale ms, in which the jitter of
\* every draw j / JitterSteps is a whole number.
BackoffScale == 10 * JitterSteps

RECURSIVE Pow2(_)
\* Math.pow(2, attempt)
Pow2(n) == IF n = 0 THEN 1 ELSE 2 * Pow2(n - 1)

Min(a, b) == IF a <= b THEN a ELSE b

\* const exponentialDelay = baseDelay * Math.pow(2, attempt)
ExponentialDelay(attempt, baseDelay) == baseDelay * Pow2(attempt)

\* const jitter = Math.random() * 0.3 * exponentialDelay, scaled
Jitter(j, exponentialDelay) == j * JitterTenths * exponentialDelay

\* calculateBackoff without the cap.
CalculateBackoffUncapped(attempt, baseDelay, j) ==
  BackoffScale * ExponentialDelay(attempt, baseDelay)
    + Jitter(j, ExponentialDelay(attempt, baseDelay))

\* return Math.min(exponentialDelay + jitter, 30000), scaled
CalculateBackoff(attempt, baseDelay, j) ==
  Min(BackoffScale * ExponentialDelay(attempt, baseDelay)
        + Jitter(j, ExponentialDelay(attempt, baseDelay)),
      BackoffScale * BackoffCap)

\* retryDelay values: the default 1000 ms, and delays at and around the cap
BaseDelays == {1, 1000, 25000, 30000, 40000}

BackoffInputs ==
  {[NoBackoff EXCEPT !.pc = "called", !.attempt = n, !.baseDelay = b] :
     n \in 0..MaxAttempt, b \in BaseDelays}

\* calculateBackoff(attempt, baseDelay) is called
BackoffCall(n, b) ==
  /\ backoff.pc \in {"idle", "returned"}
  /\ backoff' = [NoBackoff EXCEPT !.pc = "called", !.attempt = n,
                                   !.baseDelay = b]
  /\ UNCHANGED <<req, st, pendingRequests, cache, now, cleared, hist, xfer>>

\* the exponential delay is computed and Math.random() draws j / JitterSteps
BackoffDraw(j) ==
  /\ backoff.pc = "called"
  /\ backoff' = [backoff EXCEPT
                   !.pc = "drawn",
                   !.exponentialDelay =
                      ExponentialDelay(backoff.attempt, backoff.baseDelay),
                   !.draw = j]
  /\ UNCHANGED <<req, st, pendingRequests, cache, now, cleared, hist, xfer>>

\* the function returns
BackoffReturn ==
  /\ backoff.pc = "drawn"
  /\ backoff' = [backoff EXCEPT
                   !.pc = "returned",
                   !.delay = CalculateBackoff(backoff.attempt,
                                              backoff.baseDelay, backoff.draw)]
  /\ UNCHANGED <<req, st, pendingRequests, cache, now, cleared, hist, xfer>>

InitBackoff ==
  /\ InitClient
  /\ xfer = NoTransfer
  /\ backoff \in BackoffInputs

NextBackoff ==
  \/ \E n \in 0..MaxAttempt, b \in BaseDelays : BackoffCall(n, b)
  \/ \E j \in 0..(JitterSteps - 1) : BackoffDraw(j)
  \/ BackoffReturn

SpecBackoff == InitBackoff /\ [][NextBackoff]_vars

(* --------------------------- TransferService --------------------------- *)
\* Amounts and balances are in thousandths of the currency unit.
\* MINIMUM_TRANSFER_AMOUNT = new BigDecimal("0.01")
MINIMUM_TRANSFER_AMOUNT == 10
\* MAXIMUM_TRANSFER_AMOUNT = new BigDecimal("1000000.00")
MAXIMUM_TRANSFER_AMOUNT == 1000000000

AccountIds == {"A", "B"}
Amounts ==
  {-10, 0, 9, 10, 20, 30, MAXIMUM_TRANSFER_AMOUNT, MAXIMUM_TRANSFER_AMOUNT + 1}
Balances == {0, 10, 20, MAXIMUM_TRANSFER_AMOUNT}

\* a TransferRequest and the accounts the repository holds
TransferInputs ==
  [amountNull : BOOLEAN, amount : Amounts, source : AccountIds,
   target : AccountIds, repo : [AccountIds -> Balances \cup {NoAccount}]]

\* catch (final Exception e) { transferFailureCounter.increment(); throw e; }
Throw(x, e) ==
  [x EXCEPT !.pc = "thrown", !.failureCount = @ + 1, !.exception = e]

\* account.getBalance().compareTo(amount) <= 0: an equal balance is refused.
InsufficientOrEqual(balance, amount) == balance <= amount

\* if (account.getBalance().compareTo(amount) < 0)
Insufficient(balance, amount) == balance < amount

\* transferFunds(request) is invoked
TransferCall(i) ==
  /\ xfer.pc \in {"idle", "returned", "thrown"}
  /\ xfer' = [NoTransfer EXCEPT !.pc = "validateAmount",
                                !.amountNull = i.amountNull,
                                !.amount = i.amount, !.source = i.source,
                                !.target = i.target, !.repo = i.repo]
  /\ UNCHANGED <<req, st, pendingRequests, cache, now, cleared, hist, backoff>>

\* validateTransferAmount(request.amount())
ValidateTransferAmount ==
  /\ xfer.pc = "validateAmount"
  /\ xfer' = IF \/ xfer.amountNull
                \/ xfer.amount < MINIMUM_TRANSFER_AMOUNT
                \/ xfer.amount > MAXIMUM_TRANSFER_AMOUNT
             THEN Throw(xfer, "InvalidAmountException")
             ELSE [xfer EXCEPT !.pc = "validateAccounts"]
  /\ UNCHANGED <<req, st, pendingRequests, cache, now, cleared, hist, backoff>>

\* validateDistinctAccounts(sourceAccountId, targetAccountId)
ValidateDistinctAccounts ==
  /\ xfer.pc = "validateAccounts"
  /\ xfer' = IF xfer.source = xfer.target
             THEN Throw(xfer, "TransferValidationException")
             ELSE [xfer EXCEPT !.pc = "validateRules"]
  /\ UNCHANGED <<req, st, pendingRequests, cache, now, cleared, hist, backoff>>

\* transferValidator.validateBusinessRules(request) returns or throws
ValidateBusinessRules(throws) ==
  /\ xfer.pc = "validateRules"
  /\ xfer' = IF throws
             THEN Throw(xfer, "TransferValidationException")
             ELSE [xfer EXCEPT !.pc = "findSource"]
  /\ UNCHANGED <<req, st, pendingRequests, cache, now, cleared, hist, backoff>>

\* final Account sourceAccount = findAccountOrThrow(sourceAccountId)
FindSource ==
  /\ xfer.pc = "findSource"
  /\ xfer' = IF xfer.repo[xfer.source] = NoAccount
             THEN Throw(xfer, "AccountNotFoundException")
             ELSE [xfer EXCEPT !.pc = "findTarget",
                               !.sourceBalance = xfer.repo[xfer.source]]
  /\ UNCHANGED <<req, st, pendingRequests, cache, now, cleared, hist, backoff>>

\* final Account targetAccount = findAccountOrThrow(targetAccountId)
FindTarget ==
  /\ xfer.pc = "findTarget"
  /\ xfer' = IF xfer.repo[xfer.target] = NoAccount
             THEN Throw(xfer, "AccountNotFoundException")
             ELSE [xfer EXCEPT !.pc = "validateFunds",
                               !.targetBalance = xfer.repo[xfer.target]]
  /\ UNCHANGED <<req, st, pendingRequests, cache, now, cleared, hist, backoff>>

\* validateSufficientFunds, then sourceAccount.debit and targetAccount.credit
ValidateSufficientFunds ==
  /\ xfer.pc = "validateFunds"
  /\ xfer' = IF Insufficient(xfer.sourceBalance, xfer.amount)
             THEN Throw(xfer, "InsufficientFundsException")
             ELSE [xfer EXCEPT !.pc = "saveSource",
                               !.sourceBalance = @ - xfer.amount,
                               !.targetBalance = @ + xfer.amount]
  /\ UNCHANGED <<req, st, pendingRequests, cache, now, cleared, hist, backoff>>

\* accountRepository.save(sourceAccount) returns or throws
SaveSource(throws) ==
  /\ xfer.pc = "saveSource"
  /\ xfer' = IF throws
             THEN Throw(xfer, "DataAccessException")
             ELSE [xfer EXCEPT !.pc = "saveTarget",
                               !.saved = @ \cup {xfer.source}]
  /\ UNCHANGED <<req, st, pendingRequests, cache, now, cleared, hist, backoff>>

\* accountRepository.save(targetAccount) returns or throws
SaveTarget(throws) ==
  /\ xfer.pc = "saveTarget"
  /\ xfer' = IF throws
             THEN Throw(xfer, "DataAccessException")
             ELSE [xfer EXCEPT !.pc = "publish",
                               !.saved = @ \cup {xfer.target},
                               !.status = "COMPLETED"]
  /\ UNCHANGED <<req, st, pendingRequests, cache, now, cleared, hist, backoff>>

\* publishTransferCompletedEvent(result): publishEvent returns or throws
PublishTransferCompletedEvent(throws) ==
  /\ xfer.pc = "publish"
  /\ xfer' = IF throws
             THEN Throw(xfer, "EventException")
             ELSE [xfer EXCEPT !.pc = "notify", !.events = @ + 1]
  /\ UNCHANGED <<req, st, pendingRequests, cache, now, cleared, hist, backoff>>

\* sendTransferNotification without its try/catch.
SendTransferNotificationUnguarded(throws) ==
  /\ xfer.pc = "notify"
  /\ xfer' = IF throws
             THEN Throw([xfer EXCEPT !.notifyCalls = @ + 1,
                                     !.notifyFailed = TRUE],
                        "NotificationException")
             ELSE [xfer EXCEPT !.pc = "count", !.notifyCalls = @ + 1]
  /\ UNCHANGED <<req, st, pendingRequests, cache, now, cleared, hist, backoff>>

\* sendTransferNotification(sourceAccount, amount): sendTransferReceiptAsync
\* returns, or throws into catch (final Exception e) { log.warn(...) }
SendTransferNotification(throws) ==
  /\ xfer.pc = "notify"
  /\ xfer' = [xfer EXCEPT !.pc = "count", !.notifyCalls = @ + 1,
                          !.notifyFailed = throws]
  /\ UNCHANGED <<req, st, pendingRequests, cache, now, cleared, hist, backoff>>

\* transferSuccessCounter.increment(); return result
TransferReturns ==
  /\ xfer.pc = "count"
  /\ xfer' = [xfer EXCEPT !.pc = "returned", !.successCount = @ + 1]
  /\ UNCHANGED <<req, st, pendingRequests, cache, now, cleared, hist, backoff>>

NextTransfer ==
  \/ \E i \in TransferInputs : TransferCall(i)
  \/ ValidateTransferAmount
  \/ ValidateDistinctAccounts
  \/ \E t \in BOOLEAN : ValidateBusinessRules(t)
  \/ FindSource
  \/ FindTarget
  \/ ValidateSufficientFunds
  \/ \E t \in BOOLEAN : SaveSource(t)
  \/ \E t \in BOOLEAN : SaveTarget(t)
  \/ \E t \in BOOLEAN : PublishTransferCompletedEvent(t)
  \/ \E t \in BOOLEAN : SendTransferNotification(t)
  \/ TransferReturns

SpecTransfer == Init /\ [][NextTransfer]_vars

(* ------------------- the Cache Store on its own ------------------------ *)
\* what a driver of RequestCache writes, and for how long
StoreValues == {"v", "w", Null}
StoreTTLs == 0..(MaxTime - 1)

\* cache.set(k, v, ttl)
StoreSet(k, v, ttl) ==
  /\ cache' = CacheSet(cache, k, v, ttl, now)
  /\ hist' = [hist EXCEPT ![k] =
                [data |-> v, at |-> now, ttl |-> ttl, live |-> TRUE]]
  /\ UNCHANGED <<req, st, pendingRequests, now, cleared, backoff, xfer>>

\* cache.get(k): the value returned is CacheGetValue(cache, k, now)
StoreGet(k) ==
  /\ cache' = CacheGetStore(cache, k, now)
  /\ UNCHANGED <<req, st, pendingRequests, now, cleared, unitVars>>

\* cache.delete(k)
StoreDelete(k) ==
  /\ cache' = CacheDelete(cache, k)
  /\ hist' = [hist EXCEPT ![k] = NoWrite]
  /\ UNCHANGED <<req, st, pendingRequests, now, cleared, backoff, xfer>>

\* cache.clear()
StoreClear ==
  /\ cache' = CacheClear(cache)
  /\ hist' = [k \in Keys |-> NoWrite]
  /\ UNCHANGED <<req, st, pendingRequests, now, cleared, backoff, xfer>>

NextCache ==
  \/ \E k \in Keys, v \in StoreValues, ttl \in StoreTTLs : StoreSet(k, v, ttl)
  \/ \E k \in Keys : StoreGet(k)
  \/ \E k \in Keys : StoreDelete(k)
  \/ StoreClear
  \/ Tick

SpecCache == Init /\ [][NextCache]_vars

\* The client under concurrent calls: calls without retries on callers that
\* pass no signal, request and response interceptors that return, bodies
\* that parse and timeouts that do not elapse.
ClientRequests == {r \in Requests : r.maxRetries = 0}
ClientStatuses == {200, 503}
ClientBodies == {Payload(u) : u \in Urls}

Next ==
  \/ \E c \in Calls, r \in ClientRequests, h \in BOOLEAN : Issue(c, r, "none", h)
  \/ \E c \in Calls : OnRequestReturns(c)
  \/ \E c \in Calls, s \in ClientStatuses : FetchResponds(c, s)
  \/ \E c \in Calls, h \in BOOLEAN : FetchFails(c, h)
  \/ \E c \in Calls, h \in BOOLEAN : RespondError(c, h)
  \/ \E c \in Calls, d \in ClientBodies : RespondSuccess(c, d)
  \/ \E c \in Calls : Settle(c)
  \/ ClearCache
  \/ Tick

Spec == Init /\ [][Next]_vars

\* One call at a time, over every verb, cache option, retry budget, signal,
\* status, body and fault.  The calls use the default key: override keys
\* matter between calls that share one, which Spec covers.
CallRequests == {r \in Requests : r.key = NoKey}

AllBodies == UNION {Bodies(u) : u \in Urls}

NextCall == NextOver({1}, CallRequests, Signals, Statuses, AllBodies)

SpecCall == Init /\ [][NextCall]_vars

\* One call at a time whose request and response interceptors return and
\* whose successful responses carry a body that parses: every attempt ends
\* by its response, a connection failure, its timeout or the caller's
\* cancellation.  The error interceptor may throw.
NextAttempt ==
  \/ \E r \in CallRequests, sg \in Signals, h \in BOOLEAN :
        Issue(1, r, sg, h)
  \/ OnRequestReturns(1)
  \/ \E s \in Statuses : FetchResponds(1, s)
  \/ \E h \in BOOLEAN : FetchFails(1, h)
  \/ \E h \in BOOLEAN : ObserveAbort(1, h)
  \/ \E h \in BOOLEAN : RespondError(1, h)
  \/ \E d \in ClientBodies : RespondSuccess(1, d)
  \/ \E h \in BOOLEAN : BodyAborted(1, h)
  \/ TimerFires(1)
  \/ CallerAbort(1)
  \/ \E h \in BOOLEAN : BackoffElapsed(1, h)
  \/ Settle(1)
  \/ Tick

SpecAttempt == Init /\ [][NextAttempt]_vars

\* Concurrent GET calls that may share a key: two targets, with the override
\* key or with none (the default key of the second target is shared with no
\* call and is left out), caching on or off, no retries.  Callers pass no
\* signal, interceptors return, bodies parse, timeouts do not elapse.
SharedUrls == Urls \cup {"/b"}

SharedRequests ==
  {r \in [method : {"GET"}, url : SharedUrls, key : OverrideKeys,
          cacheEnabled : BOOLEAN, ttl : TTLs, maxRetries : {0}] :
     CacheKeyOf(r.method, r.url, r.key) \in Keys}

SharedBodies == {Payload(u) : u \in SharedUrls}

NextShared ==
  \/ \E c \in Calls, r \in SharedRequests, h \in BOOLEAN :
        Issue(c, r, "none", h)
  \/ \E c \in Calls : OnRequestReturns(c)
  \/ \E c \in Calls, s \in ClientStatuses : FetchResponds(c, s)
  \/ \E c \in Calls, h \in BOOLEAN : RespondError(c, h)
  \/ \E c \in Calls, d \in SharedBodies : RespondSuccess(c, d)
  \/ \E c \in Calls : Settle(c)
  \/ Tick

SpecShared == Init /\ [][NextShared]_vars

\* Concurrent GET calls of one target without caching, whose callers may
\* pass a signal and abort it, with retries and timeouts that may elapse.
JoinSignals == {"none", "live"}

JoinRequests ==
  {r \in Requests : r.method = "GET" /\ r.key = NoKey /\ ~r.cacheEnabled}

NextJoin ==
  \/ \E c \in Calls, r \in JoinRequests, sg \in JoinSignals, h \in BOOLEAN :
        Issue(c, r, sg, h)
  \/ \E c \in Calls : OnRequestReturns(c)
  \/ \E c \in Calls, s \in ClientStatuses : FetchResponds(c, s)
  \/ \E c \in Calls, h \in BOOLEAN : ObserveAbort(c, h)
  \/ \E c \in Calls, h \in BOOLEAN : RespondError(c, h)
  \/ \E c \in Calls, d \in ClientBodies : RespondSuccess(c, d)
  \/ \E c \in Calls : TimerFires(c)
  \/ \E c \in Calls : CallerAbort(c)
  \/ \E c \in Calls, h \in BOOLEAN : BackoffElapsed(c, h)
  \/ \E c \in Calls : Settle(c)

SpecJoin == Init /\ [][NextJoin]_vars

\* One call at a time without caching and without a signal, through
\* interceptors that may rewrite the URL, replace the response or throw.
InterceptRequests == {r \in CallRequests : ~r.cacheEnabled}

InterceptBodies == {Payload(u) : u \in Urls \cup RewriteUrls}

NextIntercept ==
  \/ \E r \in InterceptRequests, h \in BOOLEAN : Issue(1, r, "none", h)
  \/ OnRequestReturns(1)
  \/ \E u \in RewriteUrls : OnRequestRewrites(1, u)
  \/ \E h \in BOOLEAN : OnRequestThrows(1, h)
  \/ \E s \in Statuses : FetchResponds(1, s)
  \/ \E h \in BOOLEAN : FetchFails(1, h)
  \/ \E s \in Statuses : OnResponseReplaces(1, s)
  \/ \E h \in BOOLEAN : OnResponseThrows(1, h)
  \/ \E h \in BOOLEAN : RespondError(1, h)
  \/ \E d \in InterceptBodies : RespondSuccess(1, d)
  \/ \E h \in BOOLEAN : BackoffElapsed(1, h)
  \/ Settle(1)

SpecIntercept == Init /\ [][NextIntercept]_vars

\* One call at a time, as in SpecCall, under the scheduling the runtime
\* provides: an attempt that is executing eventually completes (its
\* interceptors and its fetch settle, or its abort is observed) and a backoff
\* wait eventually elapses.
AttemptCompletes ==
  \/ OnRequestReturns(1)
  \/ \E h \in BOOLEAN : OnRequestThrows(1, h)
  \/ \E s \in Statuses : FetchResponds(1, s)
  \/ \E h \in BOOLEAN : FetchFails(1, h)
  \/ \E h \in BOOLEAN : ObserveAbort(1, h)
  \/ \E h \in BOOLEAN : OnResponseThrows(1, h)
  \/ \E h \in BOOLEAN : RespondError(1, h)
  \/ \E d \in AllBodies : RespondSuccess(1, d)
  \/ \E h \in BOOLEAN : BodyParseFails(1, h)
  \/ \E h \in BOOLEAN : BodyAborted(1, h)

BackoffElapses == \E h \in BOOLEAN : BackoffElapsed(1, h)

SpecLive ==
  /\ SpecCall
  /\ WF_vars(AttemptCompletes)
  /\ WF_vars(BackoffElapses)

(* ------------------------------------------------------------------------ *)
(* Claims                                                                   *)
(* ------------------------------------------------------------------------ *)
\* call c has been issued and has not returned to its caller
Unsettled(c) == ~Free(c)

\* the attempt sequence of call c is running: an attempt is executing or the
\* orchestrator waits for the backoff
InFlight(c) ==
  st[c].origin = c /\ st[c].pc \in {"request", "fetch", "response", "wait"}

\* this step issues call c, as a GET that the Cache Store does not answer
IssuesGet(c) ==
  /\ Free(c)
  /\ st'[c].pc \notin {"idle", "done"}
  /\ req'[c].method = "GET"

\* this step issues call c, as a GET, answered by the Cache Store or not
IssuesAnyGet(c) ==
  /\ Free(c)
  /\ st'[c].pc # "idle" /\ st'[c].origin # 0
  /\ st'[c] # st[c] \/ req'[c] # req[c]
  /\ req'[c].method = "GET"

NewKey(c) == CacheKeyOf(req'[c].method, req'[c].url, req'[c].key)

\* C1: a GET issued while another GET with the same key is unsettled (and
\* not answered from the cache) starts no attempt sequence of its own: it is
\* answered by the sequence that answers the earlier call, and when that
\* sequence settles both callers hold the same outcome.
C1_DeduplicatedGet ==
  [][\A c \in Calls, d \in Calls :
       /\ (/\ c # d
           /\ IssuesGet(c)
           /\ Unsettled(d)
           /\ req[d].method = "GET"
           /\ KeyOf(d) = NewKey(c))
          => st'[c].origin = st[d].origin
       /\ (/\ c # d
           /\ st[c].pc = "joined" /\ st[c].origin = d
           /\ st'[d].pc = "done")
          => st'[c].pc = "done" /\ st'[c].outcome = st'[d].outcome]_vars

\* C2: for every key at most one GET attempt sequence is in flight.
C2_OneSequencePerKey ==
  \A c \in Calls, d \in Calls :
    (/\ c # d
     /\ InFlight(c) /\ InFlight(d)
     /\ req[c].method = "GET" /\ req[d].method = "GET")
    => KeyOf(c) # KeyOf(d)

\* no GET with the key of the call issued in this step is unsettled
NoneUnsettled(c) ==
  \A d \in Calls :
    (d # c /\ Unsettled(d) /\ req[d].method = "GET") => KeyOf(d) # NewKey(c)

AllSettled == \A c \in Calls : Free(c)

RegistryEmpty == \A k \in Keys : pendingRequests[k] = 0

C4_RetryExhaustion ==
  \A c \in Calls :
    (st[c].pc = "resolved" /\ st[c].allNet /\ st[c].sig # "aborted")
    => /\ st[c].fetches = req[c].maxRetries + 1
       /\ st[c].result.kind = "fail"

\* C5: a call whose first attempt ended in the client error of a 4xx
\* response has made one network attempt, whatever maxRetries is, and
\* resolves to a failure envelope with code CLIENT_ERROR_<status> and
\* retryable = false.
C5_ClientErrorShortCircuit ==
  \A c \in Calls :
    (/\ st[c].pc = "resolved"
     /\ st[c].lastError.code[1] = "CLIENT_ERROR"
     /\ st[c].attempt = 0)
    => /\ st[c].fetches = 1
       /\ st[c].result.kind = "fail"
       /\ st[c].result.code = <<"CLIENT_ERROR", st[c].result.status>>
       /\ st[c].result.status \in 400..499
       /\ st[c].result.retryable = FALSE

\* C6: what a caller holds once its call has returned is an envelope, a
\* success or a failure: the promise of no call rejects.
C6_NeverRejects ==
  \A c \in Calls :
    st[c].pc = "done" => st[c].outcome.kind \in {"ok", "fail"}

\* C7: a call on which the error interceptor has been invoked resolves to
\* the failure envelope of the error the interceptor was given, also when
\* the interceptor throws.
C7_HookFailureNotMasking ==
  \A c \in Calls :
    (st[c].pc = "resolved" /\ st[c].onErrorCalls > 0)
    => st[c].result = Failure(st[c].lastError)

\* C8: the error interceptor and the failure counter are invoked once, with
\* the final error, by a call that ends in failure and not at all by one
\* that ends in success; the success counter is emitted once, on success
\* only; none of them is invoked while the call is attempting or waiting to
\* retry.
C8_ExactlyOnceAtExhaustion ==
  \A c \in Calls :
    /\ (st[c].pc = "resolved" /\ st[c].result.kind # "ok")
       => /\ st[c].onErrorCalls = 1
          /\ st[c].failureCount = 1
          /\ st[c].successCount = 0
          /\ st[c].onErrorArg = st[c].lastError
    /\ (st[c].pc = "resolved" /\ st[c].result.kind = "ok")
       => /\ st[c].onErrorCalls = 0
          /\ st[c].failureCount = 0
          /\ st[c].successCount = 1
    /\ st[c].pc \in {"request", "fetch", "response", "wait"}
       => /\ st[c].onErrorCalls = 0
          /\ st[c].failureCount = 0
          /\ st[c].successCount = 0

\* C8 witness: a call has failed for good on its second attempt, after an
\* attempt that failed and was retried.
C8_Witness ==
  \E c \in Calls :
    /\ st[c].pc = "resolved"
    /\ st[c].attempt = 1
    /\ st[c].fetches = 2
    /\ st[c].result.kind = "fail"
    /\ st[c].onErrorCalls = 1

\* C9: a call whose caller aborted while a network attempt was in flight
\* resolves to the failure envelope of a cancellation and has made no
\* network attempt after the abort.
C9_CancelInFlight ==
  \A c \in Calls :
    (st[c].pc = "resolved" /\ st[c].abortedAt >= 0)
    => /\ st[c].result = Failure(CancelledError)
       /\ st[c].fetches = st[c].abortedAt

\* this step runs the top of a loop iteration of call c
EntersAttempt(c) ==
  \/ Free(c) /\ st'[c].pc \notin {"idle", "done", "joined"}
  \/ st[c].pc = "wait" /\ st'[c].pc # "wait"

\* C10: an attempt that starts when the caller's signal is set already makes
\* no network attempt: the call resolves, with the attempts made before, to
\* a failure envelope with code CANCELLED, retryable = false and status 0.
C10_CancelledBeforeAttempt ==
  [][\A c \in Calls :
       (EntersAttempt(c) /\ st'[c].sig = "aborted")
       => /\ st'[c].pc = "resolved"
          /\ st'[c].fetches = (IF Free(c) THEN 0 ELSE st[c].fetches)
          /\ st'[c].result =
               [kind |-> "fail", code |-> <<"CANCELLED">>,
                retryable |-> FALSE, status |-> 0]]_vars

\* the Cache Store holds an entry for key k that has not expired
Unexpired(k) == cache[k].present /\ now <= cache[k].expiry

\* C11: a GET with caching enabled that is issued when the Cache Store holds
\* an unexpired entry for its key returns at once a success envelope with
\* the entry's payload and status 200: it starts no attempt (so makes no
\* network attempt) and registers no pending entry.
C11_CacheHit ==
  [][\A c \in Calls :
       (/\ IssuesAnyGet(c)
        /\ req'[c].cacheEnabled
        /\ Unexpired(NewKey(c)))
       => /\ st'[c].pc = "done"
          /\ st'[c].origin = -1
          /\ st'[c].outcome = Success(cache[NewKey(c)].data, 200)
          /\ pendingRequests' = pendingRequests]_vars

\* what get(k) is to return by the history of the writes: the value of the
\* last set(k, v, ttl) not undone by delete(k) or clear(), up to the instant
\* of that set plus its ttl, and absent (null) otherwise
Expected(k) ==
  IF hist[k].live /\ now <= hist[k].at + hist[k].ttl
  THEN hist[k].data
  ELSE Null

\* C12: after any sequence of set, get, delete and clear, with time only
\* advancing, get(k) returns for every key what the history of the writes
\* requires (last write wins); an entry past its expiry is never returned,
\* and the get that finds it removes it.
C12_CacheStoreSemantics ==
  \A k \in Keys :
    /\ CacheGetValue(cache, k, now) = Expected(k)
    /\ (cache[k].present /\ now > cache[k].expiry)
       => /\ CacheGetValue(cache, k, now) = Null
          /\ ~CacheGetStore(cache, k, now)[k].present

\* C12 witness: one key holds an entry past its expiry (set with ttl 0, time
\* has advanced and no get has removed it yet), while another key, written
\* after time had advanced, is served.
C12_Witness ==
  \E k \in Keys, j \in Keys :
    /\ k # j
    /\ cache[k].present /\ now > cache[k].expiry
    /\ hist[k].ttl = 0 /\ hist[k].at = 0 /\ now = 1
    /\ Unexpired(j) /\ cache[j].data = "w" /\ hist[j].at = 1

\* this step hands call c its result: request() returns
Settles(c) == st[c].pc = "resolved" /\ st'[c].pc = "done"

\* this step issues call c with a verb other than GET
IssuesPost(c) ==
  /\ Free(c)
  /\ st'[c].pc \notin {"idle", "done"}
  /\ req'[c].method = "POST"

\* C13: an entry of the Cache Store is created or overwritten only by the
\* settlement of a GET that requested caching and resolved to a success
\* envelope from a network attempt of its own, with that call's payload
\* under that call's key; the settlement of a call that failed and every
\* step of a POST leave the store as it is; a POST is never answered from
\* the store or from another call, it makes its own network attempt.
C13_OnlySuccessfulGetsCached ==
  [][/\ \A k \in Keys :
          (cache'[k] # cache[k] /\ cache'[k].present)
          => \E c \in Calls :
               /\ Settles(c)
               /\ req[c].method = "GET" /\ req[c].cacheEnabled
               /\ st[c].result.kind = "ok"
               /\ st[c].origin = c /\ st[c].fetches >= 1
               /\ KeyOf(c) = k
               /\ cache'[k].data = st[c].result.data
     /\ \A c \in Calls :
          /\ (Settles(c) /\ st[c].result.kind # "ok") => cache' = cache
          /\ (Settles(c) /\ req[c].method = "POST")
             => cache' = cache /\ st[c].origin = c /\ st[c].fetches >= 1
          /\ IssuesPost(c)
             => cache' = cache /\ st'[c].origin = c]_vars

\* C13 witness: two identical POST calls with caching requested have each
\* made a network attempt and resolved successfully, while the Cache Store
\* holds under their key the unexpired entry of an earlier GET.
C13_Witness ==
  \E c \in Calls, d \in Calls :
    /\ c # d
    /\ req[c] = req[d]
    /\ req[c].method = "POST" /\ req[c].cacheEnabled
    /\ st[c].pc = "resolved" /\ st[d].pc = "resolved"
    /\ st[c].result.kind = "ok" /\ st[d].result.kind = "ok"
    /\ st[c].fetches = 1 /\ st[d].fetches = 1
    /\ Unexpired(KeyOf(c))

CacheEmpty == \A k \in Keys : ~cache[k].present

\* this step is clearCache(): the only step that sets the flag, and the only
\* one that empties a store while the flag stays set
ClearsCache ==
  cleared' /\ (~cleared \/ (~CacheEmpty /\ CacheEmpty'))

\* this step issues call c, a GET with caching enabled, after clearCache()
\* and before any other call, with no pending entry for its key
IssuesGetAfterClear(c) ==
  /\ cleared
  /\ IssuesAnyGet(c)
  /\ req'[c].cacheEnabled
  /\ pendingRequests[NewKey(c)] = 0

\* the call issued in this step goes to the network: it runs an attempt
\* sequence of its own and, unless its caller has cancelled already, its
\* first attempt is executing
GoesToNetwork(c) ==
  /\ st'[c].origin = c
  /\ st'[c].sig # "aborted" => st'[c].pc = "request"

\* C14, as stated: clearCache() leaves the store empty and the registry and
\* every call as they are, and a cache-enabled GET issued after it with no
\* request in flight for its key goes to the network.
C14_ClearCache ==
  [][/\ ClearsCache
        => /\ CacheEmpty'
           /\ pendingRequests' = pendingRequests
           /\ st' = st /\ req' = req
     /\ \A c \in Calls : IssuesGetAfterClear(c) => GoesToNetwork(c)]_vars

\* C14, amended: the same, for a GET issued before any call that was in
\* flight at clearCache() has stored its payload (the store is still empty).
C14_ClearCacheUntilRefilled ==
  [][/\ ClearsCache
        => /\ CacheEmpty'
           /\ pendingRequests' = pendingRequests
           /\ st' = st /\ req' = req
     /\ \A c \in Calls :
          (IssuesGetAfterClear(c) /\ CacheEmpty) => GoesToNetwork(c)]_vars

\* C14 witness: clearCache() has run while a cache-enabled GET is in flight
\* at its second attempt: the store is empty, and the registry still holds
\* the entry of that call.
C14_Witness ==
  \E c \in Calls :
    /\ cleared /\ CacheEmpty
    /\ req[c].method = "GET" /\ req[c].cacheEnabled
    /\ st[c].pc = "fetch" /\ st[c].attempt = 1
    /\ pendingRequests[KeyOf(c)] = c

\* C15, as stated: b * 2^n <= backoff(n, b) <= min(1.3 * b * 2^n, 30000)
\* for every attempt index, base delay and jitter draw.
C15_BackoffBounds ==
  backoff.pc = "returned"
  => /\ BackoffScale * backoff.baseDelay * Pow2(backoff.attempt)
          <= backoff.delay
     /\ backoff.delay
          <= Min(13 * JitterSteps * backoff.baseDelay * Pow2(backoff.attempt),
                 BackoffScale * 30000)

\* C15, amended: min(b * 2^n, 30000) <= backoff(n, b)
\* <= min(1.3 * b * 2^n, 30000): the cap applies to the lower bound too.
C15_BackoffBoundsCapped ==
  backoff.pc = "returned"
  => /\ Min(BackoffScale * backoff.baseDelay * Pow2(backoff.attempt),
             BackoffScale * 30000)
          <= backoff.delay
     /\ backoff.delay
          <= Min(13 * JitterSteps * backoff.baseDelay * Pow2(backoff.attempt),
                 BackoffScale * 30000)

\* C15 witness: a delay was returned for an exponential delay above the cap,
\* with a jitter drawn above zero.
C15_Witness ==
  /\ backoff.pc = "returned"
  /\ backoff.exponentialDelay > 30000
  /\ backoff.draw > 0
  /\ backoff.delay = BackoffScale * 30000

\* this step ends a network attempt of call c
EndsAttempt(c) ==
  /\ st[c].pc \in {"fetch", "response"}
  /\ st'[c].pc \in {"wait", "resolved"}

\* the attempt that ends in this step succeeded
Succeeds(c) == st'[c].pc = "resolved" /\ st'[c].result.kind = "ok"

C17_NonSuccessStatusRaised ==
  \A c \in Calls :
    (st[c].pc = "resolved" /\ st[c].result.kind = "ok")
    => st[c].result.status \in 200..299

\* C20: without caller cancellation, a call waits to retry only after an
\* attempt that raised a retryable error with budget left, and it ends at
\* the first attempt that succeeds, raises a non-retryable error or is
\* attempt number maxRetries + 1; every attempt is a network attempt; the
\* call resolves to the success envelope of that attempt or to the failure
\* envelope of that attempt's error, with that error's status.
C20_AttemptsAndOutcome ==
  \A c \in Calls :
    /\ (st[c].pc = "wait" /\ st[c].sig # "aborted")
       => /\ st[c].lastError.retryable
          /\ st[c].attempt < req[c].maxRetries
          /\ st[c].fetches = st[c].attempt + 1
    /\ (st[c].pc = "resolved" /\ st[c].sig # "aborted")
       => /\ st[c].fetches = st[c].attempt + 1
          /\ st[c].attempt <= req[c].maxRetries
          /\ \/ st[c].result.kind = "ok"
             \/ /\ st[c].result = Failure(st[c].lastError)
                /\ \/ ~st[c].lastError.retryable
                   \/ st[c].attempt = req[c].maxRetries

\* C18: once the notification dispatch has thrown, the transfer goes on to
\* return: no exception is thrown to the caller and the failure counter is
\* not incremented; the result has status COMPLETED and both accounts are
\* saved.
C18_NotificationFailureSwallowed ==
  xfer.notifyFailed
  => /\ xfer.pc \in {"count", "returned"}
     /\ xfer.exception = "none"
     /\ xfer.failureCount = 0
     /\ xfer.status = "COMPLETED"
     /\ xfer.saved = {xfer.source, xfer.target}
     /\ xfer.events = 1
     /\ xfer.pc = "returned" => xfer.successCount = 1

\* C18 witness: a transfer has returned after its notification had thrown.
C18_Witness ==
  /\ xfer.pc = "returned"
  /\ xfer.notifyFailed
  /\ xfer.sourceBalance = 0
  /\ xfer.amount = 20

\* the request of the invocation is one transferFunds rejects
IsRejected ==
  \/ xfer.amountNull
  \/ xfer.amount < 10
  \/ xfer.amount > 1000000000
  \/ xfer.source = xfer.target
  \/ xfer.repo[xfer.source] = NoAccount
  \/ xfer.repo[xfer.target] = NoAccount
  \/ xfer.repo[xfer.source] < xfer.amount

\* C19: a rejected request never gets an account saved, an event published
\* or a notification sent, and never returns; when its invocation has
\* ended, an exception has been thrown and the failure counter has been
\* incremented once.  A balance equal to the amount is not refused for
\* insufficient funds.
C19_RejectedTransferHasNoEffect ==
  /\ (xfer.pc # "idle" /\ IsRejected)
     => /\ xfer.saved = {}
        /\ xfer.events = 0
        /\ xfer.notifyCalls = 0
        /\ xfer.successCount = 0
        /\ xfer.pc \notin {"saveSource", "saveTarget", "publish", "notify",
                            "count", "returned"}
        /\ xfer.pc = "thrown"
           => xfer.failureCount = 1 /\ xfer.exception # "none"
        /\ xfer.pc # "thrown" => xfer.failureCount = 0
  /\ (xfer.pc = "thrown" /\ xfer.exception = "InsufficientFundsException")
     => xfer.repo[xfer.source] < xfer.amount

\* C19 witness: a transfer of more than the source balance has been refused
\* for insufficient funds.
C19_Witness ==
  /\ xfer.pc = "thrown"
  /\ xfer.exception = "InsufficientFundsException"
  /\ xfer.repo[xfer.source] = 20
  /\ xfer.amount = 30
  /\ xfer.failureCount = 1

\* this step ends a network attempt of call c on the AbortError of its
\* aborted signal (raised by fetch or by response.json())
EndsOnAbort(c) ==
  /\ EndsAttempt(c)
  /\ ~Succeeds(c)
  /\ CombinedAborted(st[c])
  /\ st[c].pc = "fetch" \/ StatusError(st[c].resp) = NoError

\* C21: the error of an attempt that ends on an abort names the source that
\* fired first: a timeout error (TIMEOUT, retryable) if that was the timer,
\* a cancellation error (CANCELLED, not retryable) if that was the caller's
\* signal, also when the other source has fired too before the attempt
\* observes the abort.
C21_FirstToFire ==
  [][\A c \in Calls :
       EndsOnAbort(c) =>
         /\ st[c].first = "timer" => st'[c].lastError = TimeoutError
         /\ st[c].first = "caller" => st'[c].lastError = CancelledError]_vars

\* C22: the settlement that hands a success envelope from the network to a
\* GET call that requested caching, be it the call that started the request
\* or one de-duplicated onto it, leaves the payload in the Cache Store under
\* the call's key, to expire after the call's TTL, so that a cache-enabled
\* GET with that key is answered from the store within the TTL.
C22_SuccessfulGetIsCached ==
  [][\A c \in Calls, d \in Calls :
       (/\ Settles(c)
        /\ st[c].result.kind = "ok"
        /\ st[c].result.data # Null
        /\ d = c \/ (st[d].pc = "joined" /\ st[d].origin = c)
        /\ req[d].method = "GET" /\ req[d].cacheEnabled)
       => /\ cache'[KeyOf(d)] =
               [data |-> st[c].result.data, expiry |-> now + req[d].ttl,
                present |-> TRUE]
          /\ CacheGetValue(cache', KeyOf(d), now) = st[c].result.data]_vars

\* this step starts the Request Executor for call c
StartsExecutor(c) ==
  st[c].pc \in {"idle", "done", "wait"} /\ st'[c].pc = "request"

\* this step is the network dispatch of call c
Dispatches(c) == st[c].pc = "request" /\ st'[c].pc = "fetch"

\* this step hands the response of the network to the response interceptor
Receives(c) == st[c].pc = "fetch" /\ st'[c].pc = "response"

\* this step ends the Request Executor for call c
ExitsExecutor(c) ==
  /\ st[c].pc \in {"request", "fetch", "response"}
  /\ st'[c].pc \in {"wait", "resolved"}

\* The order of the events of one attempt: the request interceptor is
\* invoked when the executor starts and only then, the dispatch follows it
\* and goes to the URL the interceptor returned, the response interceptor is
\* invoked when the response is received and only then, and the status
\* interpreted is the one of the response it returned; the request
\* interceptor has been invoked once for every attempt made.
AttemptOrder(c) ==
  /\ st'[c].pc # "done"
     => /\ st'[c].onRequestCalls =
             st[c].onRequestCalls + (IF StartsExecutor(c) THEN 1 ELSE 0)
        /\ st'[c].fetches = st[c].fetches + (IF Dispatches(c) THEN 1 ELSE 0)
        /\ st'[c].onResponseCalls =
             st[c].onResponseCalls + (IF Receives(c) THEN 1 ELSE 0)
  /\ Dispatches(c) => st'[c].target \in {req[c].url} \cup RewriteUrls
  /\ (ExitsExecutor(c) /\ Succeeds(c))
     => /\ st[c].pc = "response"
        /\ StatusError(st[c].resp) = NoError
        /\ st'[c].result = Success(Payload(st[c].target), st[c].resp)
  /\ (/\ ExitsExecutor(c) /\ ~Succeeds(c)
      /\ st'[c].lastError.code[1] \in {"CLIENT_ERROR", "SERVER_ERROR"})
     => /\ st[c].pc = "response"
        /\ st'[c].lastError = StatusError(st[c].resp)
  /\ ExitsExecutor(c) => st'[c].onRequestCalls = st[c].attempt + 1

\* C23, as stated: the order of the events of an attempt, with each of the
\* two interceptors invoked exactly once in every attempt.
C23_InterceptorOrder ==
  [][\A c \in Calls :
       /\ AttemptOrder(c)
       /\ ExitsExecutor(c)
          => st'[c].onResponseCalls = st[c].attempt + 1]_vars

\* C23, amended: the order of the events of an attempt, with the request
\* interceptor invoked exactly once in every attempt and the response
\* interceptor once in the attempts whose dispatch returned a response, and
\* in no other.
C23_InterceptorOrderOnResponse ==
  [][\A c \in Calls :
       /\ AttemptOrder(c)
       /\ ExitsExecutor(c)
          => /\ st'[c].onResponseCalls <= st[c].attempt + 1
             /\ st[c].pc = "response" => st'[c].onResponseCalls >= 1
             /\ (st[c].attempt = 0 /\ st[c].pc # "response")
                => st'[c].onResponseCalls = 0]_vars

\* C23 witness: a call has resolved on its second attempt, which was sent to
\* the URL its request interceptor returned and whose response the response
\* interceptor replaced by a successful one; the first attempt had failed in
\* the dispatch, before any response.
C23_Witness ==
  \E c \in Calls :
    /\ st[c].pc = "resolved"
    /\ st[c].attempt = 1
    /\ st[c].onRequestCalls = 2 /\ st[c].fetches = 2
    /\ st[c].onResponseCalls = 1
    /\ st[c].result = Success(Payload("/r"), 200)
    /\ st[c].lastError = NetworkError

\* the Request Executor is running for call c
Executing(c) == st[c].pc \in {"request", "fetch", "response"}

\* C24: the timeout timers that are set (armed, or fired and not cleared
\* yet) are those of the attempts that are executing: every exit of the
\* Request Executor releases the timer, and no timer fires or stays fired
\* for an attempt that has exited.
C24_TimerReleased ==
  \A c \in Calls :
    /\ Executing(c) <=> st[c].timer \in {"armed", "fired"}
    /\ ~Executing(c) => st[c].timer = "off" /\ st[c].first = "none"

\* C24 witness: an attempt has exited on its timeout, after the caller's
\* signal had fired too, and the call waits to retry with its timer released.
C24_Witness ==
  \E c \in Calls :
    /\ st[c].pc = "wait"
    /\ st[c].lastError = TimeoutError
    /\ st[c].sig = "aborted"
    /\ st[c].timer = "off"

\* the call is in ATTEMPTING or RETRY_WAIT
InProgress(c) == st[c].pc \in {"request", "fetch", "response", "wait"}

\* the call is in SUCCESS or EXHAUSTED: executeWithRetry has left its loop
Terminal(c) == st[c].pc = "resolved"

\* C25: a call that is attempting or waiting to retry eventually reaches
\* SUCCESS or EXHAUSTED; its attempt index starts at 0, grows by one when a
\* retry wait ends and at no other step, and never exceeds maxRetries; no
\* step leaves SUCCESS or EXHAUSTED other than the return of the result
\* reached.
C25_Terminates ==
  /\ \A c \in Calls : InProgress(c) ~> Terminal(c)
  /\ [][\A c \in Calls :
          /\ (Free(c) /\ ~Free(c)') => st'[c].attempt = 0
          /\ (~Free(c) /\ ~Free(c)')
             => st'[c].attempt =
                  st[c].attempt +
                    (IF st[c].pc = "wait" /\ st'[c].pc # "wait" THEN 1 ELSE 0)
          /\ ~Free(c)' => st'[c].attempt <= req'[c].maxRetries
          /\ Terminal(c)
             => \/ /\ Terminal(c)'
                   /\ st'[c].result = st[c].result
                \/ /\ st'[c].pc = "done"
                   /\ st'[c].outcome = st[c].result]_vars

\* C25 witness: a call has reached SUCCESS at its last attempt, after a
\* retry wait.
C25_Witness ==
  \E c \in Calls :
    /\ Terminal(c)
    /\ req[c].maxRetries >= 1
    /\ st[c].attempt = req[c].maxRetries
    /\ st[c].result.kind = "ok"

\* call c was de-duplicated onto the request that call o started
JoinedOnto(c, o) == st[c].pc = "joined" /\ st[c].origin = o

\* The options of a de-duplicated caller are not applied: it has no timer
\* and no attempts of its own, the abort of its signal changes nothing but
\* the signal, and it is handed the result of the request it joined.
JoinedOptionsIgnored(c) ==
  /\ st[c].pc = "joined"
     => /\ st[c].timer = "off" /\ st[c].attempt = 0 /\ st[c].fetches = 0
        /\ st[st[c].origin].attempt <= req[st[c].origin].maxRetries
  /\ (st[c].pc = "joined" /\ st'[c].pc = "joined" /\ st'[c].sig # st[c].sig)
     => /\ st' = [st EXCEPT ![c].sig = "aborted"]
        /\ pendingRequests' = pendingRequests
  /\ \A o \in Calls :
       (JoinedOnto(c, o) /\ Settles(o))
       => st'[c].pc = "done" /\ st'[c].outcome = st[o].result

\* C26: the options of a de-duplicated caller are not applied, and when the
\* caller that started the request aborts its signal while an attempt is in
\* flight, every caller de-duplicated onto the request is handed the
\* failure envelope of the cancellation.
C26_JoinedCallerOptionsIgnored ==
  [][\A c \in Calls :
       /\ JoinedOptionsIgnored(c)
       /\ \A o \in Calls :
            (JoinedOnto(c, o) /\ Settles(o) /\ st[o].abortedAt >= 0)
            => /\ st'[c].outcome = Failure(CancelledError)
               /\ st'[o].outcome = Failure(CancelledError)]_vars

\* call d runs, unsettled, the request it started
OwnsRequest(d) ==
  st[d].origin = d /\ st[d].pc \in {"request", "fetch", "response", "resolved"}

C28_InFlightWriteSurvivesClear ==
  [][\A c \in Calls :
       (/\ cleared
        /\ Settles(c)
        /\ req[c].method = "GET" /\ req[c].cacheEnabled
        /\ st[c].result.kind = "ok")
       => /\ cache'[KeyOf(c)] =
               [data |-> st[c].result.data, expiry |-> now + req[c].ttl,
                present |-> TRUE]
          /\ ~CacheEmpty'
          /\ cleared']_vars

\* C28 witness: no call was issued since clearCache() and the store holds,
\* unexpired, the payload of a call that has returned.
C28_Witness ==
  \E c \in Calls :
    /\ cleared
    /\ st[c].pc = "done" /\ st[c].origin = c
    /\ req[c].method = "GET" /\ req[c].cacheEnabled
    /\ st[c].outcome.kind = "ok"
    /\ Unexpired(KeyOf(c))
    /\ cache[KeyOf(c)].data = st[c].outcome.data

\* this step ends an attempt of call c on a failure that is neither a
\* classified error nor an abort: the request interceptor throws, or, on a
\* response whose status raises no error and with no signal fired, the
\* response interceptor throws or the body does not parse
FailsUnclassified(c) ==
  /\ st'[c].pc \in {"wait", "resolved"}
  /\ ~Succeeds(c)
  /\ \/ st[c].pc = "request"
     \/ /\ st[c].pc = "response"
        /\ StatusError(st[c].resp) = NoError
        /\ ~CombinedAborted(st[c])

\* C29: an attempt that ends on an unclassified failure raises a network
\* error (NETWORK_ERROR, retryable, status 0): the call waits to retry while
\* budget remains and otherwise resolves to the failure envelope of that
\* error; a call whose every attempt ended on a body that does not parse
\* has made maxRetries + 1 network attempts and resolves to that envelope.
C29_UnclassifiedIsNetworkError ==
  [][\A c \in Calls :
       /\ FailsUnclassified(c)
          => /\ st'[c].lastError = NetworkError
             /\ st'[c].lastError.retryable /\ st'[c].lastError.status = 0
             /\ st[c].attempt < req[c].maxRetries => st'[c].pc = "wait"
             /\ st[c].attempt = req[c].maxRetries
                => /\ st'[c].pc = "resolved"
                   /\ st'[c].result = Failure(NetworkError)
       /\ (st'[c].pc = "resolved" /\ st'[c].unparsed = st'[c].attempt + 1)
          => /\ st'[c].fetches = req'[c].maxRetries + 1
             /\ st'[c].result = Failure(NetworkError)]_vars

====
